---- MODULE Spec2Model ----
(***************************************************************************)
(* Model of the admission-controlled generation pipeline of                *)
(* instruct_data_generate.                                                 *)
(*                                                                         *)
(*   SpecAdmission  - the proxy handler _model_call_sync of                *)
(*                    app/routes/model_routes.py: concurrent requests      *)
(*                    against the Redis key model_concurrency:<model>.     *)
(*   SpecInvoker    - one backend invocation with its retry loop:          *)
(*                    call_vllm_api_sync and call_openai_api_sync of       *)
(*                    model_routes.py, DataGenerator.call_api of           *)
(*                    develop/single_gen.py.                               *)
(*   SpecSample     - DataGenerator.process_single_sample with             *)
(*                    generate_data_from_sample and                        *)
(*                    evaluate_generated_data (develop/single_gen.py).     *)
(*   SpecPipeline   - PipelineDataGenerator.generate_data of               *)
(*                    develop/pipeline_gen.py: the rounds, the endpoint    *)
(*                    workers of a round and the progress key in Redis.    *)
(*   SpecJobs       - one job of app/services/task_manager.py: the thread  *)
(*                    run_main_py, stop_task, delete_task and the cleanup  *)
(*                    timers.                                              *)
(*   SpecStreams    - the log streams of get_progress                      *)
(*                    (app/routes/task_routes.py) on a job that ends by    *)
(*                    itself and is then deleted or evicted.               *)
(*                    SpecStreamsLive adds the scheduling of the thread    *)
(*                    and of the streams.                                  *)
(***************************************************************************)
EXTENDS Integers, Sequences, FiniteSets, TLC

(***************************************************************************)
(* Bounds of the model.                                                    *)
(***************************************************************************)
NumReqs == 3
MaxCap == 2
MaxPolls == 2
MaxRetry == 3
MaxSampleRetry == 2
MaxVariants == 2
MaxTurns == 2
MaxSamples == 4
MaxServices == 3
MaxRounds == 3
MaxOut == 1
NumSubs == 2
MaxLines == 2
MaxStops == 1
MaxDeletes == 2
MaxRestarts == 1

Reqs == 1..NumReqs

VARIABLES
    store,      \* Redis: [present, val, ttl] of the key model_concurrency:<model>
    cap,        \* max_concurrency of the model (get_model_max_concurrency)
    pc,         \* request -> position inside _model_call_sync
    polls,      \* request -> wait_iterations
    incrs,      \* request -> number of INCR this request performed
    decrs,      \* request -> number of DECR this request performed
    invoked,    \* request -> number of backend invocations (retry loops) run
    outcome,    \* request -> how the last backend invocation ended
    storeErr,   \* request -> where a redis.ConnectionError hit this request
    warned,     \* request -> the fail-open warning was logged
    result,     \* request -> the ModelCallResponse returned
    iFn,        \* the invoker function that is running
    iRetry,     \* its retry_times
    iAttempt,   \* the loop variable attempt of the next iteration
    iStatus,    \* "running", "returned" (text), "raised", "none" (returned None)
    iResponses, \* what the backend answered to each attempt so far
    iSleeps,    \* the seconds slept, in order
    eMin,       \* DataGenerator.min_score
    eSrt,       \* DataGenerator.sample_retry_times
    eRetry,     \* retry_count of process_single_sample
    ePhase,     \* "generate", "evaluate", "accepted", "exhausted"
    eLeft,      \* candidates of generated_list not yet evaluated
    eQualified, \* len(qualified_data)
    eLast,      \* the candidate evaluated last and what became of it
    eCalls,     \* requests call_api posted to the model endpoint, by purpose
    eAcquires,  \* admission acquires made for those requests
    eSampleRetries, \* stats['sample_retries']
    eAttempts,  \* iterations of "for retry_count in range(...)" entered
    gSamples,   \* len(samples) read by FileReader.read_samples
    gServices,  \* self.service_count
    gRounds,    \* data_rounds
    gPc,        \* "read", "loop", "gather", "done"
    gRound,     \* round_num, the rounds completed so far
    gTasks,     \* service -> its worker in this round: none, skipped, active, ok, fail, exc
    gOut,       \* service -> output_count of the worker's result
    gOkSum,     \* output of all workers that returned a success result
    gTotal,     \* total_generated_count
    gProgress,  \* the value of the key task_progress:<task_id>
    gPubOk,     \* the last update_task_progress call wrote the key
    gResult,    \* what generate_data returned
    jReg,       \* task_id in running_tasks
    jFinished,  \* running_tasks[task_id]['finished']
    jRc,        \* running_tasks[task_id]['return_code']
    jHandle,    \* running_tasks[task_id]['process'] is set
    jProc,      \* the subprocess: "none", "running", "exited"
    jExit,      \* its exit code once it has exited
    jStatus,    \* Task.status in the database
    jErrCode,   \* the exit code kept in Task.error_message
    jReader,    \* position of the thread run_main_py
    jLine,      \* the line the thread has put on the queue and not yet in the history
    jQueue,     \* output_queue
    jHistory,   \* log_history
    jProduced,  \* lines read from the subprocess so far
    jStop,      \* position of the running stop_task call
    jStops,     \* stop_task calls made
    jStopped,   \* a stop_task call found the job unfinished
    jTimers,    \* cleanup timer -> "none", "pending", "cancelled", "fired"
    jTable,     \* the timer in _cleanup_timers[task_id]
    jDelete,    \* what the delete_task calls returned, in order
    jStarts,    \* start_task calls that took the task id again
    sPc,        \* stream -> "idle", "notfound", "live", "final", "ended"
    sGot,       \* stream -> the output events it emitted, in order
    sEvent,     \* stream -> the 'finished' event it emitted
    sBeat       \* stream -> parity of the heartbeats it emitted

admVars == <<store, cap, pc, polls, incrs, decrs, invoked, outcome,
             storeErr, warned, result>>

invVars == <<iFn, iRetry, iAttempt, iStatus, iResponses, iSleeps>>

\* What the steps of one component leave alone
evalVars == <<eMin, eSrt, eRetry, ePhase, eLeft, eQualified, eLast, eCalls,
              eAcquires, eSampleRetries, eAttempts>>

pipeVars == <<gSamples, gServices, gRounds, gPc, gRound, gTasks, gOut,
              gOkSum, gTotal, gProgress, gPubOk, gResult>>

taskVars == <<jReg, jFinished, jRc, jHandle, jProc, jExit, jStatus, jErrCode,
              jReader, jLine, jQueue, jHistory, jProduced, jStop, jStops,
              jStopped, jTimers, jTable, jDelete, jStarts>>

streamVars == <<sPc, sGot, sEvent, sBeat>>

jobVars == <<taskVars, streamVars>>

\* What the steps of one component leave alone
notAdmVars == <<invVars, evalVars, pipeVars, jobVars>>
notInvVars == <<admVars, evalVars, pipeVars, jobVars>>
notEvalVars == <<admVars, invVars, pipeVars, jobVars>>
notPipeVars == <<admVars, invVars, evalVars, jobVars>>
notJobVars == <<admVars, invVars, evalVars, pipeVars>>

vars == <<store, cap, pc, polls, incrs, decrs, invoked, outcome,
          storeErr, warned, result,
          iFn, iRetry, iAttempt, iStatus, iResponses, iSleeps,
          eMin, eSrt, eRetry, ePhase, eLeft, eQualified, eLast, eCalls,
          eAcquires, eSampleRetries, eAttempts,
          gSamples, gServices, gRounds, gPc, gRound, gTasks, gOut,
          gOkSum, gTotal, gProgress, gPubOk, gResult,
          jReg, jFinished, jRc, jHandle, jProc, jExit, jStatus, jErrCode,
          jReader, jLine, jQueue, jHistory, jProduced, jStop, jStops,
          jStopped, jTimers, jTable, jDelete, jStarts,
          sPc, sGot, sEvent, sBeat>>

(***************************************************************************)
(* Redis commands on one key.                                              *)
(***************************************************************************)
NoKey == [present |-> FALSE, val |-> 0, ttl |-> FALSE]

\* GET key, with the script's "or '0'" default for a missing key
RedisGet(k) == IF k.present THEN k.val ELSE 0

\* INCR keeps an existing expiry; a missing key counts as 0
RedisIncr(k) == [present |-> TRUE, val |-> RedisGet(k) + 1, ttl |-> k.present /\ k.ttl]

\* DECR keeps an existing expiry; a missing key counts as 0 and becomes -1
RedisDecr(k) == [present |-> TRUE, val |-> RedisGet(k) - 1, ttl |-> k.present /\ k.ttl]

\* EXPIRE key 3600
RedisExpire(k) == [k EXCEPT !.ttl = k.present]

\* The Lua script: one atomic check-and-increment; <<reply, new key>>
acquire_slot_script(k, max_concurrency) ==
    IF RedisGet(k) < max_concurrency
    THEN <<1, RedisExpire(RedisIncr(k))>>
    ELSE <<0, k>>

\* The ModelCallResponse of a request that gave up waiting
BusyResponse == "busy"

\* What call_model_via_proxy hands to its caller for a proxy response
call_model_via_proxy(resp) ==
    IF resp = "success" THEN "content" ELSE "failure_text"

\* No invocation under observation
InvokerIdle ==
    /\ iFn = "idle"
    /\ iRetry = 0
    /\ iAttempt = 0
    /\ iStatus = "idle"
    /\ iResponses = <<>>
    /\ iSleeps = <<>>

\* No candidate evaluated yet
NoEvaluation ==
    [evaluated |-> FALSE, shape |-> "none", turns |-> <<>>, rule |-> 0,
     judge |-> 0 - 1, judged |-> FALSE, model_score |-> 0, rule_score |-> 0, accepted |-> FALSE,
     retry_count |-> 0 - 1]

\* No sample under observation
SampleIdle ==
    /\ eMin = 0
    /\ eSrt = 0
    /\ eRetry = 0
    /\ ePhase = "idle"
    /\ eLeft = 0
    /\ eQualified = 0
    /\ eLast = NoEvaluation
    /\ eCalls = [gen |-> 0, judge |-> 0]
    /\ eAcquires = 0
    /\ eSampleRetries = 0
    /\ eAttempts = 0

\* The key task_progress:<task_id> does not exist
NoSnapshot ==
    [status |-> "none", current_round |-> 0, generated_count |-> 0,
     round_status |-> "none", round_output |-> 0, round_errors |-> 0,
     completion_percent |-> 0 - 1]

NoResult ==
    [status |-> "none", total_generated |-> 0, total_rounds |-> 0,
     completion_percent |-> 0 - 1]

Services == 1..MaxServices

\* No job under observation
PipelineIdle ==
    /\ gSamples = 0
    /\ gServices = 1
    /\ gRounds = 0
    /\ gPc = "done"
    /\ gRound = 0
    /\ gTasks = [i \in Services |-> "none"]
    /\ gOut = [i \in Services |-> 0]
    /\ gOkSum = 0
    /\ gTotal = 0
    /\ gProgress = NoSnapshot
    /\ gPubOk = FALSE
    /\ gResult = NoResult

Subs == 1..NumSubs

\* One timer per _schedule_cleanup call: 0 is the one of run_main_py, k the
\* one of the k-th stop_task call
TimerIds == 0..(MaxStops + MaxRestarts)
NoTimer == 0 - 1

\* return_code None
NoRc == 0 - 100

\* queue.put(None)
Sentinel == 0

NoEvent == [type |-> "none", return_code |-> NoRc, after |-> "none"]

NoStreams ==
    /\ sPc = [s \in Subs |-> "idle"]
    /\ sGot = [s \in Subs |-> <<>>]
    /\ sEvent = [s \in Subs |-> NoEvent]
    /\ sBeat = [s \in Subs |-> 0]

\* The fields of a task that has not been created
NoTask ==
    /\ jFinished = FALSE
    /\ jRc = NoRc
    /\ jHandle = FALSE
    /\ jProc = "none"
    /\ jExit = NoRc
    /\ jErrCode = NoRc
    /\ jLine = 0
    /\ jQueue = <<>>
    /\ jHistory = <<>>
    /\ jProduced = 0
    /\ jStop = "idle"
    /\ jStops = 0
    /\ jStopped = FALSE
    /\ jTimers = [t \in TimerIds |-> "none"]
    /\ jTable = NoTimer
    /\ jDelete = <<>>
    /\ jStarts = 0

\* No job under observation
JobsIdle ==
    /\ jReg = FALSE
    /\ jStatus = "none"
    /\ jReader = "done"
    /\ NoTask
    /\ NoStreams

(***************************************************************************)
(* Initial state: no key in Redis, every request about to enter the loop.  *)
(***************************************************************************)
InitAdmission ==
    /\ store = NoKey
    /\ cap \in 1..MaxCap
    /\ pc = [r \in Reqs |-> "poll"]
    /\ polls = [r \in Reqs |-> 0]
    /\ incrs = [r \in Reqs |-> 0]
    /\ decrs = [r \in Reqs |-> 0]
    /\ invoked = [r \in Reqs |-> 0]
    /\ outcome = [r \in Reqs |-> "none"]
    /\ storeErr = [r \in Reqs |-> "none"]
    /\ warned = [r \in Reqs |-> FALSE]
    /\ result = [r \in Reqs |-> "none"]
    /\ InvokerIdle
    /\ SampleIdle
    /\ PipelineIdle
    /\ JobsIdle

(***************************************************************************)
(* _model_call_sync, one action per step between two Redis round trips.    *)
(* wait_iterations is read only inside the wait loop; it is cleared when   *)
(* the loop is left.                                                       *)
(***************************************************************************)

\* except redis.ConnectionError: log the warning, go on to the direct call
ToFailOpen(r, where) ==
    /\ pc' = [pc EXCEPT ![r] = "failopen"]
    /\ polls' = [polls EXCEPT ![r] = 0]
    /\ storeErr' = [storeErr EXCEPT ![r] = where]
    /\ warned' = [warned EXCEPT ![r] = TRUE]

\* One iteration of the wait loop in which the script grants the slot.
\* getOk: the redis_client.get that follows (used for the log line only)
\* succeeds; when it raises, the slot stays counted and nobody releases it.
TryAcquireGranted(r, getOk) ==
    /\ pc[r] = "poll"
    /\ LET reply == acquire_slot_script(store, cap)
       IN /\ reply[1] = 1
          /\ store' = reply[2]
          /\ incrs' = [incrs EXCEPT ![r] = @ + 1]
          /\ IF getOk
             THEN /\ pc' = [pc EXCEPT ![r] = "invoke"]
                  /\ polls' = [polls EXCEPT ![r] = 0]
                  /\ UNCHANGED <<storeErr, warned>>
             ELSE ToFailOpen(r, "acquire")
    /\ UNCHANGED <<cap, decrs, invoked, outcome, result>>
    /\ UNCHANGED notAdmVars

\* One iteration of the wait loop in which the script answers 0: count the
\* iteration and sleep 2.5 s.
TryAcquireFull(r) ==
    /\ pc[r] = "poll"
    /\ polls[r] < MaxPolls
    /\ LET reply == acquire_slot_script(store, cap)
       IN /\ reply[1] = 0
          /\ store' = reply[2]
    /\ polls' = [polls EXCEPT ![r] = @ + 1]
    /\ UNCHANGED <<cap, pc, incrs, decrs, invoked, outcome, storeErr, warned,
                   result>>
    /\ UNCHANGED notAdmVars

\* AcquireTimeout with a release on the way out, as if the finally block
\* covered the wait loop
AcquireTimeout_release(r) ==
    /\ pc[r] = "poll"
    /\ polls[r] >= 1
    /\ pc' = [pc EXCEPT ![r] = "done"]
    /\ polls' = [polls EXCEPT ![r] = 0]
    /\ result' = [result EXCEPT ![r] = BusyResponse]
    /\ store' = RedisDecr(store)
    /\ decrs' = [decrs EXCEPT ![r] = @ + 1]
    /\ UNCHANGED <<cap, incrs, invoked, outcome, storeErr, warned>>
    /\ UNCHANGED notAdmVars

\* The loop condition fails (max_wait_time elapsed) with acquired = False:
\* return the busy response.  The first evaluation of the condition happens
\* right after start_time is taken, so it fails only after a sleep.
AcquireTimeout(r) ==
    /\ pc[r] = "poll"
    /\ polls[r] >= 1
    /\ pc' = [pc EXCEPT ![r] = "done"]
    /\ polls' = [polls EXCEPT ![r] = 0]
    /\ result' = [result EXCEPT ![r] = BusyResponse]
    /\ UNCHANGED <<store, cap, incrs, decrs, invoked, outcome, storeErr, warned>>
    /\ UNCHANGED notAdmVars

\* AcquireStoreDown that fails closed: the error is returned, no direct call
AcquireStoreDown_closed(r) ==
    /\ pc[r] = "poll"
    /\ pc' = [pc EXCEPT ![r] = "done"]
    /\ polls' = [polls EXCEPT ![r] = 0]
    /\ storeErr' = [storeErr EXCEPT ![r] = "acquire"]
    /\ result' = [result EXCEPT ![r] = "error"]
    /\ UNCHANGED <<store, cap, incrs, decrs, invoked, outcome, warned>>
    /\ UNCHANGED notAdmVars

\* A Redis call of the wait loop (the script, or the GET of the progress
\* log) raises redis.ConnectionError before anything was granted.
AcquireStoreDown(r) ==
    /\ pc[r] = "poll"
    /\ ToFailOpen(r, "acquire")
    /\ UNCHANGED <<store, cap, incrs, decrs, invoked, outcome, result>>
    /\ UNCHANGED notAdmVars

\* The backend call made while holding the slot ends: it returns the text or
\* raises; either way the finally block runs next.
Invoke(r) ==
    /\ pc[r] = "invoke"
    /\ \E o \in {"returned", "raised"} :
          outcome' = [outcome EXCEPT ![r] = o]
    /\ invoked' = [invoked EXCEPT ![r] = @ + 1]
    /\ pc' = [pc EXCEPT ![r] = "decr"]
    /\ UNCHANGED <<store, cap, polls, incrs, decrs, storeErr, warned, result>>
    /\ UNCHANGED notAdmVars

\* Leaving the try/finally without a Redis error: the return value of the
\* try block, or its exception caught by "except Exception".
FinishGuarded(r) ==
    /\ pc' = [pc EXCEPT ![r] = "done"]
    /\ result' = [result EXCEPT ![r] =
                     IF outcome[r] = "returned" THEN "success" ELSE "error"]

\* finally: new_count = redis_client.decr(redis_key)
ReleaseDecr(r) ==
    /\ pc[r] = "decr"
    /\ LET k == RedisDecr(store)
       IN /\ store' = k
          /\ decrs' = [decrs EXCEPT ![r] = @ + 1]
          /\ IF k.val <= 0
             THEN /\ pc' = [pc EXCEPT ![r] = "del"]
                  /\ UNCHANGED result
             ELSE FinishGuarded(r)
    /\ UNCHANGED <<cap, polls, incrs, invoked, outcome, storeErr, warned>>
    /\ UNCHANGED notAdmVars

\* finally: redis_client.delete(redis_key)
ReleaseDelete(r) ==
    /\ pc[r] = "del"
    /\ store' = NoKey
    /\ FinishGuarded(r)
    /\ UNCHANGED <<cap, polls, incrs, decrs, invoked, outcome, storeErr, warned>>
    /\ UNCHANGED notAdmVars

\* decr or delete of the finally block raises redis.ConnectionError: the
\* exception replaces the try block's return value or exception and is
\* caught by the handler's "except redis.ConnectionError".
ReleaseStoreDown(r) ==
    /\ pc[r] \in {"decr", "del"}
    /\ ToFailOpen(r, "release")
    /\ UNCHANGED <<store, cap, incrs, decrs, invoked, outcome, result>>
    /\ UNCHANGED notAdmVars

\* except redis.ConnectionError: call the backend directly, unthrottled
FailOpenInvoke(r) ==
    /\ pc[r] = "failopen"
    /\ \E o \in {"returned", "raised"} :
          /\ outcome' = [outcome EXCEPT ![r] = o]
          /\ result' = [result EXCEPT ![r] =
                           IF o = "returned" THEN "success" ELSE "error"]
    /\ invoked' = [invoked EXCEPT ![r] = @ + 1]
    /\ pc' = [pc EXCEPT ![r] = "done"]
    /\ UNCHANGED <<store, cap, polls, incrs, decrs, storeErr, warned>>
    /\ UNCHANGED notAdmVars

\* Redis drops a key whose 3600 s expiry ran out
Expire ==
    /\ store.present
    /\ store.ttl
    /\ store' = NoKey
    /\ UNCHANGED <<cap, pc, polls, incrs, decrs, invoked, outcome, storeErr,
                   warned, result>>
    /\ UNCHANGED notAdmVars

\* Redis reachable and no key expiring
NextAdmissionHealthy ==
    \/ \E r \in Reqs : TryAcquireGranted(r, TRUE)
    \/ \E r \in Reqs : TryAcquireFull(r)
    \/ \E r \in Reqs : AcquireTimeout(r)
    \/ \E r \in Reqs : Invoke(r)
    \/ \E r \in Reqs : ReleaseDecr(r)
    \/ \E r \in Reqs : ReleaseDelete(r)

NextAdmission ==
    \/ \E r \in Reqs : \E getOk \in BOOLEAN : TryAcquireGranted(r, getOk)
    \/ \E r \in Reqs : TryAcquireFull(r)
    \/ \E r \in Reqs : AcquireTimeout(r)
    \/ \E r \in Reqs : AcquireStoreDown(r)
    \/ \E r \in Reqs : Invoke(r)
    \/ \E r \in Reqs : ReleaseDecr(r)
    \/ \E r \in Reqs : ReleaseDelete(r)
    \/ \E r \in Reqs : ReleaseStoreDown(r)
    \/ \E r \in Reqs : FailOpenInvoke(r)
    \/ Expire

SpecAdmission == InitAdmission /\ [][NextAdmission]_vars

SpecAdmissionHealthy == InitAdmission /\ [][NextAdmissionHealthy]_vars

\* The worker process dies during the backend call of a request that holds
\* a slot: its finally block never runs
Crash(r) ==
    /\ pc[r] = "invoke"
    /\ pc' = [pc EXCEPT ![r] = "crashed"]
    /\ UNCHANGED <<store, cap, polls, incrs, decrs, invoked, outcome,
                   storeErr, warned, result>>
    /\ UNCHANGED notAdmVars

\* The caller whose request has returned sends the next one
NewRequest(r) ==
    /\ pc[r] = "done"
    /\ pc' = [pc EXCEPT ![r] = "poll"]
    /\ polls' = [polls EXCEPT ![r] = 0]
    /\ incrs' = [incrs EXCEPT ![r] = 0]
    /\ decrs' = [decrs EXCEPT ![r] = 0]
    /\ invoked' = [invoked EXCEPT ![r] = 0]
    /\ outcome' = [outcome EXCEPT ![r] = "none"]
    /\ result' = [result EXCEPT ![r] = "none"]
    /\ UNCHANGED <<store, cap, storeErr, warned>>
    /\ UNCHANGED notAdmVars

\* The script grants a slot to some request, which renews the expiry
Granting == \E r \in Reqs : TryAcquireGranted(r, TRUE)

\* The steps of one request with Redis reachable
RequestStep(r) ==
    \/ TryAcquireGranted(r, TRUE)
    \/ TryAcquireFull(r)
    \/ AcquireTimeout(r)
    \/ Invoke(r)
    \/ ReleaseDecr(r)
    \/ ReleaseDelete(r)

\* Redis reachable, callers that keep sending requests, holders that crash
NextAdmissionCrash ==
    \/ \E r \in Reqs : TryAcquireGranted(r, TRUE)
    \/ \E r \in Reqs : TryAcquireFull(r)
    \/ \E r \in Reqs : AcquireTimeout(r)
    \/ \E r \in Reqs : Invoke(r)
    \/ \E r \in Reqs : ReleaseDecr(r)
    \/ \E r \in Reqs : ReleaseDelete(r)
    \/ \E r \in Reqs : Crash(r)
    \/ \E r \in Reqs : NewRequest(r)
    \/ Expire

\* The server runs every request that has not crashed.  The key's 3600 s
\* run out only when no grant renews them: Redis is sure to drop the key
\* in the behaviours where grants stop, and in no others.
SpecAdmissionCrash ==
    /\ InitAdmission
    /\ [][NextAdmissionCrash]_vars
    /\ \A r \in Reqs : WF_vars(RequestStep(r))
    /\ ([]<><<Granting>>_vars) \/ WF_vars(Expire)

(***************************************************************************)
(* The backend invokers.  One action is one iteration of the retry loop:   *)
(* the request, the handling of its outcome, and the sleep before the next *)
(* iteration.                                                              *)
(***************************************************************************)
ProxyInvokers == {"call_vllm_api_sync", "call_openai_api_sync"}
Invokers == ProxyInvokers \cup {"call_api"}

\* How one attempt can end: status 200 with the body read to its end, a
\* timeout, a connection failure, an HTTP 4xx, an HTTP 5xx, or any other
\* exception (a stream that breaks after the status line, a reply without
\* content, ...)
Responses == {"ok200", "timeout", "connerr", "http4xx", "http5xx", "other"}

RECURSIVE Pow2(_)
Pow2(n) == IF n = 0 THEN 1 ELSE 2 * Pow2(n - 1)

\* for attempt in range(retry_times), with one iteration too many
RangeHasNext_inclusive(attempt, retry_times) == attempt <= retry_times

\* for attempt in range(retry_times)
RangeHasNext(attempt, retry_times) == attempt < retry_times

\* wait_time = (attempt + 1) * 2
LinearBackoff(attempt) == (attempt + 1) * 2

\* asyncio.sleep(2 ** attempt)
ExponentialBackoff(attempt) == Pow2(attempt)

InvokerStart ==
    /\ iFn \in Invokers
    /\ iRetry \in 0..MaxRetry
    /\ iAttempt = 0
    /\ iStatus = "running"
    /\ iResponses = <<>>
    /\ iSleeps = <<>>

\* except branch of the proxy invokers for a retryable failure:
\* sleep and continue unless this was the last iteration, then re-raise
RetryOrRaise ==
    IF iAttempt < iRetry - 1
    THEN /\ iSleeps' = Append(iSleeps, LinearBackoff(iAttempt))
         /\ iAttempt' = iAttempt + 1
         /\ iStatus' = "running"
    ELSE /\ iStatus' = "raised"
         /\ UNCHANGED <<iSleeps, iAttempt>>

\* The loop body shared by both proxy invokers, for the answer resp
ProxyAttempt(resp) ==
    /\ iStatus = "running"
    /\ RangeHasNext(iAttempt, iRetry)
    /\ iResponses' = Append(iResponses, resp)
    /\ CASE resp = "ok200" ->
              /\ iStatus' = "returned"
              /\ UNCHANGED <<iSleeps, iAttempt>>
         [] resp = "http4xx" ->
              /\ iStatus' = "raised"
              /\ UNCHANGED <<iSleeps, iAttempt>>
         [] OTHER -> RetryOrRaise
    /\ UNCHANGED <<iFn, iRetry>>

\* The loop ran out without returning or raising: raise Exception(...)
ProxyLoopEnd ==
    /\ iStatus = "running"
    /\ ~RangeHasNext(iAttempt, iRetry)
    /\ iStatus' = "raised"
    /\ UNCHANGED <<iFn, iRetry, iAttempt, iResponses, iSleeps>>

\* One iteration of call_vllm_api_sync: requests.post, raise_for_status,
\* read the stream
call_vllm_api_sync ==
    /\ iFn = "call_vllm_api_sync"
    /\ \/ \E resp \in Responses : ProxyAttempt(resp)
       \/ ProxyLoopEnd
    /\ UNCHANGED notInvVars

\* One iteration of call_openai_api_sync: chat.completions.create
call_openai_api_sync ==
    /\ iFn = "call_openai_api_sync"
    /\ \/ \E resp \in Responses : ProxyAttempt(resp)
       \/ ProxyLoopEnd
    /\ UNCHANGED notInvVars

\* One iteration of DataGenerator.call_api: any status other than 200 and
\* any exception are handled alike: sleep 2 ** attempt and go on unless this
\* was the last iteration; after the loop count an api error and return None
call_api ==
    /\ iFn = "call_api"
    /\ iStatus = "running"
    /\ \/ /\ RangeHasNext(iAttempt, iRetry)
          /\ \E resp \in Responses :
                /\ iResponses' = Append(iResponses, resp)
                /\ CASE resp = "ok200" ->
                          /\ iStatus' = "returned"
                          /\ UNCHANGED <<iSleeps, iAttempt>>
                     [] resp # "ok200" /\ iAttempt < iRetry - 1 ->
                          /\ iSleeps' = Append(iSleeps, ExponentialBackoff(iAttempt))
                          /\ iAttempt' = iAttempt + 1
                          /\ iStatus' = "running"
                     [] OTHER ->
                          /\ iStatus' = "none"
                          /\ UNCHANGED <<iSleeps, iAttempt>>
       \/ /\ ~RangeHasNext(iAttempt, iRetry)
          /\ iStatus' = "none"
          /\ UNCHANGED <<iAttempt, iResponses, iSleeps>>
    /\ UNCHANGED <<iFn, iRetry>>
    /\ UNCHANGED notInvVars

NextInvoker ==
    \/ call_vllm_api_sync
    \/ call_openai_api_sync
    \/ call_api

\* The admission variables while no request is under observation
AdmissionIdle ==
    /\ store = NoKey
    /\ cap = 1
    /\ pc = [r \in Reqs |-> "done"]
    /\ polls = [r \in Reqs |-> 0]
    /\ incrs = [r \in Reqs |-> 0]
    /\ decrs = [r \in Reqs |-> 0]
    /\ invoked = [r \in Reqs |-> 0]
    /\ outcome = [r \in Reqs |-> "none"]
    /\ storeErr = [r \in Reqs |-> "none"]
    /\ warned = [r \in Reqs |-> FALSE]
    /\ result = [r \in Reqs |-> "none"]

InitInvoker ==
    InvokerStart /\ AdmissionIdle /\ SampleIdle /\ PipelineIdle /\ JobsIdle

SpecInvoker == InitInvoker /\ [][NextInvoker]_vars

(***************************************************************************)
(* The generation-evaluation loop of one sample.                           *)
(***************************************************************************)
Roles == {"Human", "Assistant", "Other"}

\* The turns of a candidate, by role
TurnSeqs == UNION {[1..n -> Roles] : n \in 0..MaxTurns}

\* What a list element of the parsed response can look like
Shapes == {"notdict", "noturns", "turnsnotlist", "ok"}

\* The judge call: call_api returned None, the reply carries no score, or
\* parse_evaluation_score found a score 0..10
JudgeFailed == 0 - 2
NoScore == 0 - 1
JudgeReplies == {JudgeFailed, NoScore} \cup (0..10)

RECURSIVE CountRole(_, _)
CountRole(turns, role) ==
    IF turns = <<>> THEN 0
    ELSE (IF Head(turns) = role THEN 1 ELSE 0) + CountRole(Tail(turns), role)

\* Assistant == 1 and Human == 1, without the Human count
ScoringEligible_anyHuman(turns) == CountRole(turns, "Assistant") = 1

\* Assistant == 1 and Human == 1
ScoringEligible(turns) ==
    CountRole(turns, "Assistant") = 1 /\ CountRole(turns, "Human") = 1

\* if rule_score == 10, relaxed to 9
RuleGate_relaxed(rule_score) == rule_score >= 9

\* if rule_score == 10
RuleGate(rule_score) == rule_score = 10

\* (model_score_ and model_score_ < self.min_score) or not model_score_
JudgeRejects(score, min_score) ==
    score = NoScore \/ score = 0 \/ score < min_score

\* evaluate_generated_data: rule is what format_evaluator answers for the
\* Assistant text, judge what the judge call yields if it is made.
\* Returns (model_score, rule_score) and whether the judge was called.
evaluate_generated_data(shape, turns, rule, judge, min_score) ==
    IF shape = "turnsnotlist"
    THEN [judged |-> FALSE, model_score |-> 0, rule_score |-> 0]
    ELSE IF ~ScoringEligible(turns)
    THEN [judged |-> FALSE, model_score |-> 0, rule_score |-> 0]
    ELSE IF ~RuleGate(rule)
    THEN [judged |-> FALSE, model_score |-> 0, rule_score |-> rule]
    ELSE IF judge = JudgeFailed \/ JudgeRejects(judge, min_score)
    THEN [judged |-> TRUE, model_score |-> 0, rule_score |-> 0]
    ELSE [judged |-> TRUE, model_score |-> judge, rule_score |-> rule]

\* if model_score >= self.min_score and rule_score == 10
Qualifies(model_score, rule_score, min_score) ==
    model_score >= min_score /\ rule_score = 10

SampleStart ==
    /\ eMin \in 0..10
    /\ eSrt \in 0..MaxSampleRetry
    /\ eRetry = 0
    /\ ePhase = "generate"
    /\ eLeft = 0
    /\ eQualified = 0
    /\ eLast = NoEvaluation
    /\ eCalls = [gen |-> 0, judge |-> 0]
    /\ eAcquires = 0
    /\ eSampleRetries = 0
    /\ eAttempts = 0

\* An attempt ended without qualified data, giving up one attempt early
RetryOrExhaust_early ==
    IF eRetry < eSrt - 2
    THEN /\ eSampleRetries' = eSampleRetries + 1
         /\ eRetry' = eRetry + 1
         /\ ePhase' = "generate"
    ELSE /\ ePhase' = "exhausted"
         /\ UNCHANGED <<eSampleRetries, eRetry>>

\* An attempt ended without qualified data: count a retry and go on, or
\* return [] after the last attempt
RetryOrExhaust ==
    IF eRetry < eSrt - 1
    THEN /\ eSampleRetries' = eSampleRetries + 1
         /\ eRetry' = eRetry + 1
         /\ ePhase' = "generate"
    ELSE /\ ePhase' = "exhausted"
         /\ UNCHANGED <<eSampleRetries, eRetry>>

\* for retry_count in range(0): the loop body never runs, return []
SampleLoopEnd ==
    /\ ePhase = "generate"
    /\ ~(eRetry < eSrt)
    /\ ePhase' = "exhausted"
    /\ UNCHANGED <<eMin, eSrt, eRetry, eLeft, eQualified, eLast, eCalls,
                   eAcquires, eSampleRetries, eAttempts>>
    /\ UNCHANGED notEvalVars

\* generate_data_from_sample: build the prompt, call_api (a POST straight to
\* api_base/chat/completions), parse the reply into n candidates; n = 0 for
\* a failed call, an unparseable reply or an exception.  called = FALSE: the
\* prompt builder raised before the call.
Generate ==
    /\ ePhase = "generate"
    /\ eRetry < eSrt
    /\ eAttempts' = eAttempts + 1
    /\ \E called \in BOOLEAN : \E n \in 0..MaxVariants :
          /\ ~called => n = 0
          /\ eCalls' = [eCalls EXCEPT !.gen = IF called THEN @ + 1 ELSE @]
          /\ IF n = 0
             THEN /\ RetryOrExhaust
                  /\ UNCHANGED <<eLeft, eQualified>>
             ELSE /\ ePhase' = "evaluate"
                  /\ eLeft' = n
                  /\ eQualified' = 0
                  /\ UNCHANGED <<eRetry, eSampleRetries>>
    /\ UNCHANGED <<eMin, eSrt, eLast, eAcquires>>
    /\ UNCHANGED notEvalVars

\* One iteration of "for idx, generated_data in enumerate(generated_list)",
\* and the end of the attempt after the last candidate.  The candidate is
\* drawn when its turn comes: turns only for an element that has a list of
\* turns, the format evaluator's score only where the evaluator is called,
\* the judge's reply only where the judge is called.
EvaluateCandidate ==
    /\ ePhase = "evaluate"
    /\ eLeft > 0
    /\ \E shape \in Shapes :
       \E turns \in (IF shape = "ok" THEN TurnSeqs ELSE {<<>>}) :
       \E rule \in (IF shape = "ok" /\ ScoringEligible(turns) THEN 0..10 ELSE {0}) :
       \E judge \in (IF shape = "ok" /\ ScoringEligible(turns) /\ RuleGate(rule)
                     THEN JudgeReplies ELSE {NoScore}) :
          LET skipped == shape \in {"notdict", "noturns"}
              ev == evaluate_generated_data(shape, turns, rule, judge, eMin)
              ok == ~skipped /\ Qualifies(ev.model_score, ev.rule_score, eMin)
              q == IF ok THEN eQualified + 1 ELSE eQualified
          IN /\ eLast' = IF skipped THEN eLast
                         ELSE [evaluated |-> TRUE, shape |-> shape,
                               turns |-> turns, rule |-> rule,
                               judge |-> judge, judged |-> ev.judged,
                               model_score |-> ev.model_score,
                               rule_score |-> ev.rule_score,
                               accepted |-> ok,
                               retry_count |-> IF ok THEN eRetry ELSE 0 - 1]
             /\ eCalls' = [eCalls EXCEPT !.judge =
                              IF ~skipped /\ ev.judged THEN @ + 1 ELSE @]
             /\ eQualified' = q
             /\ eLeft' = eLeft - 1
             /\ IF eLeft > 1
                THEN UNCHANGED <<ePhase, eRetry, eSampleRetries>>
                ELSE IF q > 0
                THEN /\ ePhase' = "accepted"
                     /\ UNCHANGED <<eRetry, eSampleRetries>>
                ELSE RetryOrExhaust
    /\ UNCHANGED <<eMin, eSrt, eAcquires, eAttempts>>
    /\ UNCHANGED notEvalVars

\* An exception escapes the evaluation loop: what was qualified so far is
\* dropped and the attempt counts as failed
SampleException ==
    /\ ePhase = "evaluate"
    /\ eLeft > 0
    /\ RetryOrExhaust
    /\ eLeft' = 0
    /\ eQualified' = 0
    /\ UNCHANGED <<eMin, eSrt, eLast, eCalls, eAcquires, eAttempts>>
    /\ UNCHANGED notEvalVars

NextSample ==
    \/ SampleLoopEnd
    \/ Generate
    \/ EvaluateCandidate
    \/ SampleException

InitSample ==
    SampleStart /\ AdmissionIdle /\ InvokerIdle /\ PipelineIdle /\ JobsIdle

SpecSample == InitSample /\ [][NextSample]_vars

(***************************************************************************)
(* The pipeline orchestrator: generate_data and its endpoint workers.      *)
(* Percentages are kept in hundredths of a percent (5000 is 50.0).         *)
(***************************************************************************)
Min(a, b) == IF a < b THEN a ELSE b

\* FileReader.split_samples_in_memory: num_parts slices of
\* ceil(total / num_parts) samples, the last ones shorter or empty
split_samples_in_memory(samples, num_parts) ==
    IF samples = <<>>
    THEN [i \in 1..num_parts |-> <<>>]
    ELSE LET total_samples == Len(samples)
             samples_per_part == (total_samples + num_parts - 1) \div num_parts
         IN [i \in 1..num_parts |->
                LET start_idx == (i - 1) * samples_per_part
                    end_idx == Min(i * samples_per_part, total_samples)
                IN IF start_idx >= total_samples
                   THEN <<>>
                   ELSE SubSeq(samples, start_idx + 1, end_idx)]

\* The percentage cut off after two decimals instead of rounded
round_completion_truncated(rounds_done, data_rounds) ==
    (rounds_done * 10000) \div data_rounds

\* round(((round_num + 1) / data_rounds) * 100, 2)
round_completion(rounds_done, data_rounds) ==
    (2 * rounds_done * 10000 + data_rounds) \div (2 * data_rounds)

\* update_task_progress: SET and EXPIRE of the progress key; without a
\* Redis client, or when Redis raises, the key keeps its old value
update_task_progress(progress_data) ==
    \E written \in BOOLEAN :
        /\ gPubOk' = written
        /\ gProgress' = IF written THEN progress_data ELSE gProgress

RECURSIVE SumRange(_, _)
SumRange(f, n) == IF n = 0 THEN 0 ELSE f[n] + SumRange(f, n - 1)

\* round_output_count and round_errors over the results of gather
round_output_count ==
    SumRange([i \in Services |-> IF gTasks[i] = "ok" THEN gOut[i] ELSE 0],
             MaxServices)

\* round_errors that counts the exceptions handed back by gather only
round_errors_exceptions ==
    SumRange([i \in Services |-> IF gTasks[i] = "exc" THEN 1 ELSE 0],
             MaxServices)

round_errors ==
    SumRange([i \in Services |-> IF gTasks[i] \in {"fail", "exc"} THEN 1 ELSE 0],
             MaxServices)

PipelineStart ==
    /\ gSamples \in 0..MaxSamples
    /\ gServices \in Services
    /\ gRounds \in 0..MaxRounds
    /\ gPc = "read"
    /\ gRound = 0
    /\ gTasks = [i \in Services |-> "none"]
    /\ gOut = [i \in Services |-> 0]
    /\ gOkSum = 0
    /\ gTotal = 0
    /\ gProgress = NoSnapshot
    /\ gPubOk = FALSE
    /\ gResult = NoResult

\* read_samples, the return for an empty sample set, the first snapshot
ReadSamples ==
    /\ gPc = "read"
    /\ IF gSamples = 0
       THEN /\ gResult' = [NoResult EXCEPT !.status = "Failed"]
            /\ gPc' = "done"
            /\ UNCHANGED <<gProgress, gPubOk>>
       ELSE /\ update_task_progress(
                   [NoSnapshot EXCEPT !.status = "running"])
            /\ gPc' = "loop"
            /\ UNCHANGED gResult
    /\ UNCHANGED <<gSamples, gServices, gRounds, gRound, gTasks, gOut,
                   gOkSum, gTotal>>
    /\ UNCHANGED notPipeVars

\* The head of a round: the 'processing' snapshot, the split, one worker
\* per service that got samples, all handed to asyncio.gather
RoundStart ==
    /\ gPc = "loop"
    /\ gRound < gRounds
    /\ update_task_progress(
           [NoSnapshot EXCEPT !.status = "running",
                              !.current_round = gRound + 1,
                              !.generated_count = gTotal,
                              !.round_status = "processing"])
    /\ LET sample_parts ==
               split_samples_in_memory([j \in 1..gSamples |-> j], gServices)
       IN gTasks' = [i \in Services |->
                        IF i <= gServices /\ sample_parts[i] # <<>>
                        THEN "active" ELSE "skipped"]
    /\ gOut' = [i \in Services |-> 0]
    /\ gPc' = "gather"
    /\ UNCHANGED <<gSamples, gServices, gRounds, gRound, gOkSum, gTotal, gResult>>
    /\ UNCHANGED notPipeVars

\* process_single_service returns: a success result with its output_count,
\* a failure result, or an exception that gather hands back
process_single_service(i) ==
    /\ gPc = "gather"
    /\ gTasks[i] = "active"
    /\ \E res \in {"ok", "fail", "exc"} :
       \E output_count \in (IF res = "ok" THEN 0..MaxOut ELSE {0}) :
          /\ gTasks' = [gTasks EXCEPT ![i] = res]
          /\ gOut' = [gOut EXCEPT ![i] = output_count]
          /\ gOkSum' = gOkSum + output_count
    /\ UNCHANGED <<gSamples, gServices, gRounds, gPc, gRound, gTotal,
                   gProgress, gPubOk, gResult>>
    /\ UNCHANGED notPipeVars

\* await asyncio.gather(*tasks), resuming after the first result
gather_first ==
    \/ \A i \in Services : gTasks[i] \notin {"active", "ok", "fail", "exc"}
    \/ \E i \in Services : gTasks[i] \in {"ok", "fail", "exc"}

\* await asyncio.gather(*tasks, return_exceptions=True) has every result
gather == \A i \in Services : gTasks[i] # "active"

\* The tail of a round: the tally, the 'completed' snapshot
RoundEnd ==
    /\ gPc = "gather"
    /\ gather
    /\ LET total == gTotal + round_output_count
       IN /\ gTotal' = total
          /\ update_task_progress(
                 [NoSnapshot EXCEPT
                     !.status = "running",
                     !.current_round = gRound + 1,
                     !.generated_count = total,
                     !.round_status = "completed",
                     !.round_output = round_output_count,
                     !.round_errors = round_errors,
                     !.completion_percent = round_completion(gRound + 1, gRounds)])
    /\ gRound' = gRound + 1
    /\ gPc' = "loop"
    /\ UNCHANGED <<gSamples, gServices, gRounds, gTasks, gOut, gOkSum, gResult>>
    /\ UNCHANGED notPipeVars

\* After the last round: the 'completed' snapshot and the result
Finish ==
    /\ gPc = "loop"
    /\ ~(gRound < gRounds)
    /\ update_task_progress(
           [NoSnapshot EXCEPT !.status = "completed",
                              !.current_round = gRounds,
                              !.generated_count = gTotal,
                              !.completion_percent = 10000])
    /\ gResult' = [status |-> "Success", total_generated |-> gTotal,
                   total_rounds |-> gRounds, completion_percent |-> 10000]
    /\ gPc' = "done"
    /\ UNCHANGED <<gSamples, gServices, gRounds, gRound, gTasks, gOut,
                   gOkSum, gTotal>>
    /\ UNCHANGED notPipeVars

NextPipeline ==
    \/ ReadSamples
    \/ RoundStart
    \/ \E i \in Services : process_single_service(i)
    \/ RoundEnd
    \/ Finish

InitPipeline ==
    PipelineStart /\ AdmissionIdle /\ InvokerIdle /\ SampleIdle /\ JobsIdle

SpecPipeline == InitPipeline /\ [][NextPipeline]_vars

(***************************************************************************)
(* The job lifecycle manager: one job from create_task on.  A step is what *)
(* a thread does between two synchronisation points (the registry lock,    *)
(* the queue, the database).  The database and the subprocess launch are   *)
(* taken to work.                                                          *)
(***************************************************************************)
OwnExitCodes == {0, 1}
SigTerm == 0 - 15

\* start_task: create_task, the Task row with status 'running', the thread
JobStart ==
    /\ jReg = TRUE
    /\ jStatus = "running"
    /\ jReader = "launch"
    /\ NoTask
    /\ NoStreams

\* _update_task_status_in_db with a return code
StatusOfReturnCode(return_code) == IF return_code = 0 THEN "finished" ELSE "error"

\* _schedule_cleanup: a new timer, recorded in _cleanup_timers and started
_schedule_cleanup(t) ==
    /\ jTimers' = [jTimers EXCEPT ![t] = "pending"]
    /\ jTable' = t

\* The timer that the thread of the running job schedules
ReaderTimer == IF jStarts = 0 THEN 0 ELSE MaxStops + jStarts

\* process.terminate(), wait, kill: a running process ends, with the code of
\* the signal or with its own if it was just exiting
Terminate ==
    IF jHandle /\ jProc = "running"
    THEN /\ jProc' = "exited"
         /\ jExit' \in OwnExitCodes \cup {SigTerm}
    ELSE UNCHANGED <<jProc, jExit>>

\* run_main_py: subprocess.Popen
Launch ==
    /\ jReader = "launch"
    /\ jProc' = "running"
    /\ jReader' = "store"
    /\ UNCHANGED <<jReg, jFinished, jRc, jHandle, jExit, jStatus, jErrCode,
                   jLine, jQueue, jHistory, jProduced, jStop, jStops,
                   jStopped, jTimers, jTable, jDelete, sPc, sGot, sEvent,
                   sBeat>>
    /\ UNCHANGED <<jStarts, notJobVars>>

\* run_main_py: running_tasks[task_id]['process'] = process and the lookup
\* of the queue; a KeyError ends the thread when the task is gone
StoreHandle ==
    /\ jReader = "store"
    /\ IF jReg
       THEN /\ jHandle' = TRUE
            /\ jReader' = "read"
       ELSE /\ jReader' = "crashed"
            /\ UNCHANGED jHandle
    /\ UNCHANGED <<jReg, jFinished, jRc, jProc, jExit, jStatus, jErrCode,
                   jLine, jQueue, jHistory, jProduced, jStop, jStops,
                   jStopped, jTimers, jTable, jDelete, sPc, sGot, sEvent,
                   sBeat>>
    /\ UNCHANGED <<jStarts, notJobVars>>

\* The subprocess exits on its own
ProcessExit ==
    /\ jProc = "running"
    /\ jProc' = "exited"
    /\ jExit' \in OwnExitCodes
    /\ UNCHANGED <<jReg, jFinished, jRc, jHandle, jStatus, jErrCode,
                   jReader, jLine, jQueue, jHistory, jProduced, jStop,
                   jStops, jStopped, jTimers, jTable, jDelete, sPc, sGot,
                   sEvent, sBeat>>
    /\ UNCHANGED <<jStarts, notJobVars>>

\* run_main_py: readline returned a line, output_queue.put(line_stripped)
ReadLine ==
    /\ jReader = "read"
    /\ jProduced < MaxLines
    /\ jProduced' = jProduced + 1
    /\ jLine' = jProduced + 1
    /\ jQueue' = Append(jQueue, jProduced + 1)
    /\ jReader' = "append"
    /\ UNCHANGED <<jReg, jFinished, jRc, jHandle, jProc, jExit, jStatus,
                   jErrCode, jHistory, jStop, jStops, jStopped, jTimers,
                   jTable, jDelete, sPc, sGot, sEvent, sBeat>>
    /\ UNCHANGED <<jStarts, notJobVars>>

\* run_main_py: if task_id in running_tasks: log_history.append(line_stripped)
AppendHistory ==
    /\ jReader = "append"
    /\ jHistory' = IF jReg THEN Append(jHistory, jLine) ELSE jHistory
    /\ jLine' = 0
    /\ jReader' = "read"
    /\ UNCHANGED <<jReg, jFinished, jRc, jHandle, jProc, jExit, jStatus,
                   jErrCode, jQueue, jProduced, jStop, jStops, jStopped,
                   jTimers, jTable, jDelete, sPc, sGot, sEvent, sBeat>>
    /\ UNCHANGED <<jStarts, notJobVars>>

\* run_main_py: readline returned '' at the end of the output,
\* output_queue.put(None)
EndOfOutput ==
    /\ jReader = "read"
    /\ jProc = "exited"
    /\ jQueue' = Append(jQueue, Sentinel)
    /\ jReader' = "wait"
    /\ UNCHANGED <<jReg, jFinished, jRc, jHandle, jProc, jExit, jStatus,
                   jErrCode, jLine, jHistory, jProduced, jStop, jStops,
                   jStopped, jTimers, jTable, jDelete, sPc, sGot, sEvent,
                   sBeat>>
    /\ UNCHANGED <<jStarts, notJobVars>>

\* run_main_py, finally: process.wait(), then return_code and finished under
\* the lock; a KeyError ends the thread when the task is gone
Complete ==
    /\ jReader = "wait"
    /\ jProc = "exited"
    /\ IF jReg
       THEN /\ jRc' = jExit
            /\ jFinished' = TRUE
            /\ jReader' = "db"
       ELSE /\ jReader' = "crashed"
            /\ UNCHANGED <<jRc, jFinished>>
    /\ UNCHANGED <<jReg, jHandle, jProc, jExit, jStatus, jErrCode, jLine,
                   jQueue, jHistory, jProduced, jStop, jStops, jStopped,
                   jTimers, jTable, jDelete, sPc, sGot, sEvent, sBeat>>
    /\ UNCHANGED <<jStarts, notJobVars>>

\* run_main_py, finally: _update_task_status_in_db(return_code=...)
CompleteStatus ==
    /\ jReader = "db"
    /\ jStatus' = StatusOfReturnCode(jExit)
    /\ jErrCode' = IF jExit # 0 /\ jErrCode = NoRc THEN jExit ELSE jErrCode
    /\ jReader' = "schedule"
    /\ UNCHANGED <<jReg, jFinished, jRc, jHandle, jProc, jExit, jLine,
                   jQueue, jHistory, jProduced, jStop, jStops, jStopped,
                   jTimers, jTable, jDelete, sPc, sGot, sEvent, sBeat>>
    /\ UNCHANGED <<jStarts, notJobVars>>

\* run_main_py, finally: _schedule_cleanup(task_id, delay=300)
CompleteSchedule ==
    /\ jReader = "schedule"
    /\ _schedule_cleanup(ReaderTimer)
    /\ jReader' = "done"
    /\ UNCHANGED <<jReg, jFinished, jRc, jHandle, jProc, jExit, jStatus,
                   jErrCode, jLine, jQueue, jHistory, jProduced, jStop,
                   jStops, jStopped, jDelete, sPc, sGot, sEvent, sBeat>>
    /\ UNCHANGED <<jStarts, notJobVars>>

\* stop_task on a task that is not registered: return False
StopUnknown ==
    /\ jStop = "idle"
    /\ jStops < MaxStops
    /\ ~jReg
    /\ jStops' = jStops + 1
    /\ UNCHANGED <<jReg, jFinished, jRc, jHandle, jProc, jExit, jStatus,
                   jErrCode, jReader, jLine, jQueue, jHistory, jProduced,
                   jStop, jStopped, jTimers, jTable, jDelete, sPc, sGot,
                   sEvent, sBeat>>
    /\ UNCHANGED <<jStarts, notJobVars>>

\* stop_task under the lock: terminate the process if its handle is stored,
\* finished = True
StopTerminate ==
    /\ jStop = "idle"
    /\ jStops < MaxStops
    /\ jReg
    /\ jStops' = jStops + 1
    /\ Terminate
    /\ jStopped' = (jStopped \/ ~jFinished)
    /\ jFinished' = TRUE
    /\ jStop' = "db"
    /\ UNCHANGED <<jReg, jRc, jHandle, jStatus, jErrCode, jReader, jLine,
                   jQueue, jHistory, jProduced, jTimers, jTable, jDelete,
                   sPc, sGot, sEvent, sBeat>>
    /\ UNCHANGED <<jStarts, notJobVars>>

\* stop_task: _update_task_status_in_db(status='stopped')
StopStatus ==
    /\ jStop = "db"
    /\ jStatus' = "stopped"
    /\ jStop' = "cancel"
    /\ UNCHANGED <<jReg, jFinished, jRc, jHandle, jProc, jExit, jErrCode,
                   jReader, jLine, jQueue, jHistory, jProduced, jStops,
                   jStopped, jTimers, jTable, jDelete, sPc, sGot, sEvent,
                   sBeat>>
    /\ UNCHANGED <<jStarts, notJobVars>>

\* stop_task: if task_id in _cleanup_timers: _cleanup_timers[task_id].cancel()
StopCancel ==
    /\ jStop = "cancel"
    /\ jTimers' = IF jTable # NoTimer /\ jTimers[jTable] = "pending"
                  THEN [jTimers EXCEPT ![jTable] = "cancelled"]
                  ELSE jTimers
    /\ jStop' = "schedule"
    /\ UNCHANGED <<jReg, jFinished, jRc, jHandle, jProc, jExit, jStatus,
                   jErrCode, jReader, jLine, jQueue, jHistory, jProduced,
                   jStops, jStopped, jTable, jDelete, sPc, sGot, sEvent,
                   sBeat>>
    /\ UNCHANGED <<jStarts, notJobVars>>

\* stop_task: _schedule_cleanup(task_id, delay=300), return True
StopSchedule ==
    /\ jStop = "schedule"
    /\ _schedule_cleanup(jStops)
    /\ jStop' = "idle"
    /\ UNCHANGED <<jReg, jFinished, jRc, jHandle, jProc, jExit, jStatus,
                   jErrCode, jReader, jLine, jQueue, jHistory, jProduced,
                   jStops, jStopped, jDelete, sPc, sGot, sEvent, sBeat>>
    /\ UNCHANGED <<jStarts, notJobVars>>

\* A cleanup timer fires: _cleanup_task
_cleanup_task(t) ==
    /\ jTimers[t] = "pending"
    /\ jTimers' = [jTimers EXCEPT ![t] = "fired"]
    /\ jReg' = FALSE
    /\ jTable' = IF jReg THEN NoTimer ELSE jTable
    /\ UNCHANGED <<jFinished, jRc, jHandle, jProc, jExit, jStatus,
                   jErrCode, jReader, jLine, jQueue, jHistory, jProduced,
                   jStop, jStops, jStopped, jDelete, sPc, sGot, sEvent,
                   sBeat>>
    /\ UNCHANGED <<jStarts, notJobVars>>

\* delete_task without the test of the finished flag
delete_task_unchecked ==
    /\ Len(jDelete) < MaxDeletes
    /\ IF ~jReg
       THEN /\ jDelete' = Append(jDelete, "notfound")
            /\ UNCHANGED <<jReg, jProc, jExit, jTimers, jTable>>
       ELSE /\ jDelete' = Append(jDelete, "ok")
            /\ Terminate
            /\ jReg' = FALSE
            /\ jTimers' = IF jTable # NoTimer /\ jTimers[jTable] = "pending"
                          THEN [jTimers EXCEPT ![jTable] = "cancelled"]
                          ELSE jTimers
            /\ jTable' = NoTimer
    /\ UNCHANGED <<jFinished, jRc, jHandle, jStatus, jErrCode, jReader,
                   jLine, jQueue, jHistory, jProduced, jStop, jStops,
                   jStopped, sPc, sGot, sEvent, sBeat>>
    /\ UNCHANGED <<jStarts, notJobVars>>

\* delete_task, under the lock from the first line to the last
delete_task ==
    /\ Len(jDelete) < MaxDeletes
    /\ IF ~jReg
       THEN /\ jDelete' = Append(jDelete, "notfound")
            /\ UNCHANGED <<jReg, jProc, jExit, jTimers, jTable>>
       ELSE IF ~jFinished
       THEN /\ jDelete' = Append(jDelete, "stopfirst")
            /\ UNCHANGED <<jReg, jProc, jExit, jTimers, jTable>>
       ELSE /\ jDelete' = Append(jDelete, "ok")
            /\ Terminate
            /\ jReg' = FALSE
            /\ jTimers' = IF jTable # NoTimer /\ jTimers[jTable] = "pending"
                          THEN [jTimers EXCEPT ![jTable] = "cancelled"]
                          ELSE jTimers
            /\ jTable' = NoTimer
    /\ UNCHANGED <<jFinished, jRc, jHandle, jStatus, jErrCode, jReader,
                   jLine, jQueue, jHistory, jProduced, jStop, jStops,
                   jStopped, sPc, sGot, sEvent, sBeat>>
    /\ UNCHANGED <<jStarts, notJobVars>>

\* The 'finished' event with the return code the registry holds
FinishedEvent(after) ==
    [type |-> "finished", return_code |-> jRc, after |-> after]

\* get_progress: 404 for an unknown task; else the queue and a copy of the
\* history, which the stream emits first
Subscribe(s) ==
    /\ sPc[s] = "idle"
    /\ IF jReg
       THEN /\ sPc' = [sPc EXCEPT ![s] = "live"]
            /\ sGot' = [sGot EXCEPT ![s] = jHistory]
       ELSE /\ sPc' = [sPc EXCEPT ![s] = "notfound"]
            /\ UNCHANGED sGot
    /\ UNCHANGED <<jReg, jFinished, jRc, jHandle, jProc, jExit, jStatus,
                   jErrCode, jReader, jLine, jQueue, jHistory, jProduced,
                   jStop, jStops, jStopped, jTimers, jTable, jDelete,
                   sEvent, sBeat>>
    /\ UNCHANGED <<jStarts, notJobVars>>

\* generate: output_queue.get returned an item
QueueGet(s) ==
    /\ sPc[s] = "live"
    /\ jQueue # <<>>
    /\ jQueue' = Tail(jQueue)
    /\ IF Head(jQueue) = Sentinel
       THEN /\ sPc' = [sPc EXCEPT ![s] = "final"]
            /\ UNCHANGED sGot
       ELSE /\ sGot' = [sGot EXCEPT ![s] = Append(@, Head(jQueue))]
            /\ UNCHANGED sPc
    /\ UNCHANGED <<jReg, jFinished, jRc, jHandle, jProc, jExit, jStatus,
                   jErrCode, jReader, jLine, jHistory, jProduced, jStop,
                   jStops, jStopped, jTimers, jTable, jDelete, sEvent,
                   sBeat>>
    /\ UNCHANGED <<jStarts, notJobVars>>

\* generate, after the end marker: the 'finished' event if the task is
\* still registered, and the end of the stream
AfterSentinel(s) ==
    /\ sPc[s] = "final"
    /\ sEvent' = [sEvent EXCEPT ![s] =
                     IF jReg THEN FinishedEvent("sentinel") ELSE NoEvent]
    /\ sPc' = [sPc EXCEPT ![s] = "ended"]
    /\ UNCHANGED <<jReg, jFinished, jRc, jHandle, jProc, jExit, jStatus,
                   jErrCode, jReader, jLine, jQueue, jHistory, jProduced,
                   jStop, jStops, jStopped, jTimers, jTable, jDelete, sGot,
                   sBeat>>
    /\ UNCHANGED <<jStarts, notJobVars>>

\* generate, queue.Empty after one second: the 'finished' event and the end
\* of the stream if the task is registered and finished, else a heartbeat
QueueEmpty(s) ==
    /\ sPc[s] = "live"
    /\ jQueue = <<>>
    /\ IF jReg /\ jFinished
       THEN /\ sEvent' = [sEvent EXCEPT ![s] = FinishedEvent("timeout")]
            /\ sPc' = [sPc EXCEPT ![s] = "ended"]
            /\ UNCHANGED sBeat
       ELSE /\ sBeat' = [sBeat EXCEPT ![s] = 1 - @]
            /\ UNCHANGED <<sEvent, sPc>>
    /\ UNCHANGED <<jReg, jFinished, jRc, jHandle, jProc, jExit, jStatus,
                   jErrCode, jReader, jLine, jQueue, jHistory, jProduced,
                   jStop, jStops, jStopped, jTimers, jTable, jDelete, sGot>>
    /\ UNCHANGED <<jStarts, notJobVars>>

\* The steps of the thread run_main_py
ReaderStep ==
    \/ Launch
    \/ StoreHandle
    \/ ReadLine
    \/ AppendHistory
    \/ EndOfOutput
    \/ Complete
    \/ CompleteStatus
    \/ CompleteSchedule

\* The steps of one log stream
StreamStep(s) ==
    \/ QueueGet(s)
    \/ AfterSentinel(s)
    \/ QueueEmpty(s)

InitJobs ==
    JobStart /\ AdmissionIdle /\ InvokerIdle /\ SampleIdle /\ PipelineIdle

NextJobs ==
    \/ Launch
    \/ StoreHandle
    \/ ProcessExit
    \/ ReadLine
    \/ AppendHistory
    \/ EndOfOutput
    \/ Complete
    \/ CompleteStatus
    \/ CompleteSchedule
    \/ StopUnknown
    \/ StopTerminate
    \/ StopStatus
    \/ StopCancel
    \/ StopSchedule
    \/ \E t \in TimerIds : _cleanup_task(t)
    \/ delete_task

SpecJobs == InitJobs /\ [][NextJobs]_vars

\* start_task for the same input file after the job left the registry
\* (delete_task or a cleanup timer) and its Task row left the database
\* (the report was deleted): the name is free again, create_task registers
\* a fresh entry under it, the row is written and a new thread started.
\* The timers of the module-level table and those still counting down stay
\* as they are.  Taken once the thread, the stop call and the subprocess of
\* the earlier job have ended.
Restart ==
    /\ ~jReg
    /\ jStarts < MaxRestarts
    /\ jReader \in {"done", "crashed"}
    /\ jStop = "idle"
    /\ jProc # "running"
    /\ jStarts' = jStarts + 1
    /\ jReg' = TRUE
    /\ jFinished' = FALSE
    /\ jRc' = NoRc
    /\ jHandle' = FALSE
    /\ jProc' = "none"
    /\ jExit' = NoRc
    /\ jStatus' = "running"
    /\ jErrCode' = NoRc
    /\ jReader' = "launch"
    /\ jLine' = 0
    /\ jQueue' = <<>>
    /\ jHistory' = <<>>
    /\ jProduced' = 0
    /\ jStopped' = FALSE
    /\ UNCHANGED <<jStop, jStops, jTimers, jTable, jDelete, sPc, sGot,
                   sEvent, sBeat>>
    /\ UNCHANGED notJobVars

InitJobsReuse ==
    JobStart /\ AdmissionIdle /\ InvokerIdle /\ SampleIdle /\ PipelineIdle

\* The job manager with task ids that are taken again
NextJobsReuse ==
    \/ Launch
    \/ StoreHandle
    \/ ProcessExit
    \/ ReadLine
    \/ AppendHistory
    \/ EndOfOutput
    \/ Complete
    \/ CompleteStatus
    \/ CompleteSchedule
    \/ StopUnknown
    \/ StopTerminate
    \/ StopStatus
    \/ StopCancel
    \/ StopSchedule
    \/ \E t \in TimerIds : _cleanup_task(t)
    \/ delete_task
    \/ Restart

SpecJobsReuse == InitJobsReuse /\ [][NextJobsReuse]_vars

InitStreams ==
    JobStart /\ AdmissionIdle /\ InvokerIdle /\ SampleIdle /\ PipelineIdle

\* No stop_task call: the job ends when its subprocess exits
NextStreams ==
    \/ Launch
    \/ StoreHandle
    \/ ProcessExit
    \/ ReadLine
    \/ AppendHistory
    \/ EndOfOutput
    \/ Complete
    \/ CompleteStatus
    \/ CompleteSchedule
    \/ \E t \in TimerIds : _cleanup_task(t)
    \/ delete_task
    \/ \E s \in Subs : Subscribe(s)
    \/ \E s \in Subs : QueueGet(s)
    \/ \E s \in Subs : AfterSentinel(s)
    \/ \E s \in Subs : QueueEmpty(s)

SpecStreams == InitStreams /\ [][NextStreams]_vars

\* The operating system runs the thread and the server drives every open
\* stream; delete calls and the exit of the subprocess come when they come
SpecStreamsLive ==
    /\ InitStreams
    /\ [][NextStreams]_vars
    /\ WF_vars(ReaderStep)
    /\ \A s \in Subs : WF_vars(StreamStep(s))

(***************************************************************************)
(* Admission controller: properties.                                       *)
(***************************************************************************)
RECURSIVE SumOver(_, _)
SumOver(f, S) ==
    IF S = {} THEN 0
    ELSE LET x == CHOOSE y \in S : TRUE IN f[x] + SumOver(f, S \ {x})

\* Requests that acquired a slot and have not released it
Holders == {r \in Reqs : incrs[r] > decrs[r]}

\* C1: the number of requests that acquired a slot of the model and have not
\* yet released it never exceeds the configured capacity.
C1_HeldSlotsWithinCapacity == Cardinality(Holders) <= cap

\* C2: the stored counter is always between 0 and the capacity, and a
\* release never deletes the key while it carries an acquire's increment.
C2_CounterWithinBounds ==
    /\ store.present => (0 <= store.val /\ store.val <= cap)
    /\ \A r \in Reqs : pc[r] = "del" => RedisGet(store) <= 0

\* C3: acquires succeed only into free capacity or one per release: the
\* number of granted acquires never exceeds capacity plus the number of
\* releases made so far.
C3_OneGrantPerRelease ==
    SumOver(incrs, Reqs) <= cap + SumOver(decrs, Reqs)

\* C4: a request that gave up waiting returned the busy response, made no
\* backend invocation, performed neither INCR nor DECR, and its caller gets
\* a failure text instead of an exception.
C4_TimeoutIsBusyAndInert ==
    \A r \in Reqs : pc[r] = "done" =>
        /\ (incrs[r] = 0 /\ storeErr[r] = "none") <=> result[r] = BusyResponse
        /\ result[r] = BusyResponse =>
              /\ invoked[r] = 0
              /\ incrs[r] = 0
              /\ decrs[r] = 0
              /\ call_model_via_proxy(result[r]) = "failure_text"

\* a request has timed out while another one still holds the slot
C4_Witness ==
    \E r \in Reqs : \E h \in Reqs :
        /\ pc[r] = "done" /\ result[r] = BusyResponse
        /\ pc[h] = "invoke"

\* C5: a request hit by a Redis connection error during admission logged the
\* warning, invoked the backend exactly once without a slot check, and
\* returns that invocation's result; while it is in the fail-open path the
\* direct call is always possible.
C5_FailOpenOnStoreDown ==
    \A r \in Reqs : storeErr[r] = "acquire" =>
        /\ warned[r]
        /\ pc[r] \in {"failopen", "done"}
        /\ pc[r] = "failopen" => (invoked[r] = 0 /\ ENABLED FailOpenInvoke(r))
        /\ pc[r] = "done" =>
              /\ invoked[r] = 1
              /\ result[r] = (IF outcome[r] = "returned" THEN "success" ELSE "error")

\* a request failed open while the model was full and got the backend's text
C5_Witness ==
    \E r \in Reqs :
        /\ storeErr[r] = "acquire" /\ pc[r] = "done" /\ result[r] = "success"
        /\ RedisGet(store) = cap

(***************************************************************************)
(* Backend invoker: properties.                                            *)
(***************************************************************************)
Retryable == {"timeout", "connerr", "http5xx", "other"}

InvokerFinished == iStatus \in {"returned", "raised", "none"}

\* C7: an attempt answered with HTTP 4xx is the last one: the failure is
\* raised at once, nothing is slept after it, and when the first answer is a
\* 4xx there is exactly one attempt and no sleep at all.
C7_ClientErrorNotRetried ==
    \A i \in 1..Len(iResponses) : iResponses[i] = "http4xx" =>
        /\ i = Len(iResponses)
        /\ iStatus \in {"raised", "none"}
        /\ Len(iSleeps) < i

C9_LinearBackoffSleeps ==
    /\ \A i \in 1..Len(iSleeps) : iSleeps[i] = i * 2
    /\ iStatus = "running" => Len(iSleeps) = Len(iResponses)
    /\ InvokerFinished /\ Len(iResponses) > 0 => Len(iSleeps) = Len(iResponses) - 1
    /\ (iRetry = 3 /\ iResponses = <<"http5xx", "http5xx", "ok200">>) =>
          (iStatus = "returned" /\ iSleeps = <<2, 4>>)

(***************************************************************************)
(* Generation-evaluation loop: properties.                                 *)
(***************************************************************************)

\* C6: every request the loop sends to a model endpoint, for generation or
\* for judging, was preceded by an admission acquire.
C6_EveryInvocationAdmitted == eAcquires >= eCalls.gen + eCalls.judge

\* C10: a candidate whose rule score is not 10, or that does not have
\* exactly one Human and one Assistant turn, is rejected and no judge call
\* is made for it.
C10_NoJudgeCallUnlessPerfect ==
    (eLast.evaluated /\ (eLast.rule # 10 \/ ~ScoringEligible(eLast.turns))) =>
        (~eLast.judged /\ ~eLast.accepted)

\* a well-formed candidate with rule score 9 was evaluated after another
\* candidate had been sent to the judge
C10_Witness ==
    /\ eLast.evaluated
    /\ eLast.shape = "ok"
    /\ ScoringEligible(eLast.turns)
    /\ eLast.rule = 9
    /\ eCalls.judge > 0

\* C11: a candidate with exactly one Human and one Assistant turn, rule
\* score r and parsed judge score s in 0..10 is accepted if and only if
\* r = 10 and s >= min_score (so s = min_score is accepted and
\* s = min_score - 1 is rejected); a judge reply without a score rejects.
C11_AcceptedIffPerfectAndAboveMin ==
    (eLast.evaluated /\ eLast.shape = "ok" /\ ScoringEligible(eLast.turns)) =>
        /\ eLast.rule # 10 => ~eLast.accepted
        /\ (eLast.rule = 10 /\ eLast.judge \in 0..10) =>
              (eLast.accepted <=> eLast.judge >= eMin)
        /\ (eLast.rule = 10 /\ eLast.judge \in {NoScore, JudgeFailed}) =>
              ~eLast.accepted

SampleTerminal == ePhase \in {"accepted", "exhausted"}

\* What is left to do: the attempts not yet started, the candidates of the
\* running attempt, the loop header still to be passed
SampleMeasure ==
    (eSrt - eAttempts) * (2 * MaxVariants + 2) + 2 * eLeft
        + (IF ePhase = "generate" THEN 1 ELSE 0)

\* C12: process_single_sample ends, either with a non-empty list at the
\* first attempt that qualified a candidate or with the empty list; it
\* never makes more than sample_retry_times attempts, and when it returns
\* the empty list it has made exactly sample_retry_times attempts.
\* Termination: the two returns are the only states without a next step,
\* and every step brings the bounded measure down.
C12_TerminatesAfterExactlySrtAttempts ==
    /\ [](/\ eAttempts <= eSrt
          /\ ePhase = "accepted" =>
                (eQualified > 0 /\ eSampleRetries = eAttempts - 1)
          /\ ePhase = "exhausted" =>
                (eQualified = 0 /\ eAttempts = eSrt)
          /\ SampleTerminal <=> ~ENABLED NextSample
          /\ SampleMeasure >= 0)
    /\ [][SampleMeasure' < SampleMeasure]_vars

\* both attempts of a sample were used up: the first produced nothing, the
\* second a candidate that was evaluated and rejected
C12_Witness ==
    /\ ePhase = "exhausted"
    /\ eSrt = 2
    /\ eAttempts = 2
    /\ eCalls.gen = 2
    /\ eLast.evaluated /\ ~eLast.accepted

(***************************************************************************)
(* Pipeline orchestrator: properties.                                      *)
(***************************************************************************)
Running(tasks) == {i \in Services : tasks[i] = "active"}

\* C13: workers are started only when no worker is active: the workers of
\* round k+1 are dispatched after every worker of round k has returned.
C13_RoundBarrier ==
    [][(Running(gTasks') \ Running(gTasks) # {}) => Running(gTasks) = {}]_vars

\* a worker of round 2 is active, the workers of round 1 having returned a
\* failure result and an exception
C13_Witness ==
    /\ gRound = 1
    /\ gPc = "gather"
    /\ gTasks[1] = "active"
    /\ gProgress.current_round = 1
    /\ gProgress.round_errors = 2

\* The snapshot of a completed round
RoundSnapshot(p) == p.status = "running" /\ p.round_status = "completed"

\* What C14 says of the snapshot written after a round, but for the
\* percentage; of the scenario with 4 samples, 2 endpoints and 2 rounds; and
\* of the end of the job
SnapshotAfterRound ==
    /\ (gPc = "loop" /\ gRound > 0 /\ gPubOk) =>
          /\ RoundSnapshot(gProgress)
          /\ gProgress.current_round = gRound
          /\ gProgress.generated_count = gOkSum
    /\ (gSamples = 4 /\ gServices = 2 /\ gRounds = 2 /\ RoundSnapshot(gProgress)) =>
          gProgress.completion_percent = gProgress.current_round * 5000
    /\ gResult.status = "Success" =>
          /\ gResult.completion_percent = 10000
          /\ gResult.total_generated = gOkSum
          /\ gPubOk => (gProgress.status = "completed"
                        /\ gProgress.completion_percent = 10000
                        /\ gProgress.current_round = gRounds
                        /\ gProgress.generated_count = gOkSum)

\* C14 as stated: after round k of n the snapshot carries current_round k,
\* completion_percent exactly k/n*100 and the cumulative output of the
\* successful workers; 50.0 and 100.0 for 4 samples, 2 endpoints, 2 rounds;
\* the final result reports 100%.
C14_SnapshotExactPercent ==
    /\ SnapshotAfterRound
    /\ RoundSnapshot(gProgress) =>
          gProgress.completion_percent * gRounds = gProgress.current_round * 10000

\* C14, amended: completion_percent is k/n*100 rounded to two decimals.
C14_SnapshotRoundedPercent ==
    /\ SnapshotAfterRound
    /\ RoundSnapshot(gProgress) =>
          LET d == gProgress.completion_percent * gRounds
                       - gProgress.current_round * 10000
          IN 0 - gRounds <= 2 * d /\ 2 * d <= gRounds

\* 4 samples, 2 endpoints, 2 rounds: the snapshot after round 2 reads 100.0
\* and counts the output of both rounds, a worker of round 2 having failed
C14_Witness ==
    /\ gSamples = 4 /\ gServices = 2 /\ gRounds = 2
    /\ gPc = "loop" /\ gRound = 2 /\ gPubOk
    /\ gTasks[1] = "fail" /\ gTasks[2] = "ok" /\ gOut[2] = 1
    /\ gProgress.completion_percent = 10000
    /\ gProgress.generated_count = 2
    /\ gProgress.round_errors = 1

(***************************************************************************)
(* Job lifecycle manager: properties.                                      *)
(***************************************************************************)
TerminalStatus == {"finished", "error", "stopped"}

\* C15: a terminal status, once recorded, is never replaced by a different
\* status, whichever operation comes later, and the finished flag never
\* goes back from True to False.
C15_TerminalStatusIsFinal ==
    [][/\ jStatus \in TerminalStatus => jStatus' = jStatus
       /\ jFinished => jFinished']_vars

\* C16: once a stop_task call that found the job running has written its
\* status, the status is 'stopped', whatever the exit code and whenever the
\* thread's completion step writes; without any stop call the completion
\* step records 'finished' for exit code 0 and 'error' with the code else.
C16_StopWinsOverExitCode ==
    /\ (jStopped /\ jStop # "db") => jStatus = "stopped"
    /\ (jStops = 0 /\ jReader \in {"schedule", "done"}) =>
          /\ jStatus = StatusOfReturnCode(jExit)
          /\ jExit # 0 => jErrCode = jExit

C18_LinesInOrderNoneSkipped ==
    \A s \in Subs :
        /\ \A i \in 1..Len(sGot[s]) : sGot[s][i] = i
        /\ (sPc[s] = "ended" /\ sEvent[s].type = "finished") =>
              Len(sGot[s]) = jProduced

\* C19: a stream that is open when the subprocess has exited eventually
\* emits the 'finished' event and ends.
C19_OpenStreamsEnd ==
    \A s \in Subs :
        (sPc[s] \in {"live", "final"} /\ jProc = "exited")
            ~> (sPc[s] = "ended" /\ sEvent[s].type = "finished")

\* C20: the 'finished' event emitted after the end marker carries the exit
\* code of the subprocess.
C20_SentinelEventHasReturnCode ==
    \A s \in Subs :
        (sEvent[s].type = "finished" /\ sEvent[s].after = "sentinel") =>
            (jProc = "exited" /\ sEvent[s].return_code = jExit)

(***************************************************************************)
(* Pipeline orchestrator: the split of the samples and failing workers.    *)
(***************************************************************************)
\* The samples read for the job, in file order
SampleList == [j \in 1..gSamples |-> j]

\* The shards of a round, one after the other
RECURSIVE Concat(_, _)
Concat(parts, n) == IF n = 0 THEN <<>> ELSE Concat(parts, n - 1) \o parts[n]

\* What C21 says of the shards but for their evenness: one shard per
\* endpoint, together the sample list in its order, none longer than
\* ceil(total/n), and a worker for exactly the non-empty ones
ShardsPartition(parts) ==
    /\ DOMAIN parts = 1..gServices
    /\ Concat(parts, gServices) = SampleList
    /\ \A i \in 1..gServices :
          /\ Len(parts[i]) * gServices < gSamples + gServices
          /\ gTasks[i] = "skipped" <=> parts[i] = <<>>

\* C21: in a round of a job with total >= 1 samples and n >= 1 endpoints
\* the split gives n shards that partition the sample list in order, each
\* of at most ceil(total/n) samples, any two sizes differing by at most
\* one; 4 samples over 2 endpoints give 2 and 2.
C21_SplitEvenPartition ==
    gPc = "gather" =>
        LET parts == split_samples_in_memory(SampleList, gServices)
        IN /\ ShardsPartition(parts)
           /\ \A i \in 1..gServices : \A j \in 1..gServices :
                 Len(parts[i]) - Len(parts[j]) <= 1
           /\ (gSamples = 4 /\ gServices = 2) =>
                 (Len(parts[1]) = 2 /\ Len(parts[2]) = 2)

(***************************************************************************)
(* Sample loop: the sample-retry counter and the retry_count annotation.   *)
(***************************************************************************)
\* A candidate of the running attempt was accepted and annotated
AcceptedNow == eQualified > 0 /\ eLast.accepted

\* The annotation of an accepted candidate: the 0-based number of its
\* attempt, which is the number of failed attempts before it and the
\* growth of the sample-retry counter so far
AnnotatedWithAttempt ==
    AcceptedNow =>
        /\ eLast.retry_count = eRetry
        /\ eLast.retry_count = eAttempts - 1
        /\ eSampleRetries = eLast.retry_count

\* C22 as stated: after a Sample exhausts the sample-retry counter has
\* grown by exactly sampleRetryTimes (one per failed attempt), and a
\* Candidate accepted on attempt i (0-based) carries retry_count = i.
C22_CounterGrowsBySrt ==
    /\ ePhase = "exhausted" => (eAttempts = eSrt /\ eSampleRetries = eSrt)
    /\ AnnotatedWithAttempt

\* C22 amended: the counter grows by one per failed attempt that is
\* followed by another attempt, so after a Sample exhausts (sampleRetryTimes
\* failed attempts) it has grown by sampleRetryTimes - 1 (by 0 when
\* sampleRetryTimes is 0), and a Candidate accepted on attempt i (0-based)
\* carries retry_count = i, the number of failed attempts before it.
C22_CounterGrowsByRetries ==
    /\ ePhase = "exhausted" =>
          /\ eAttempts = eSrt
          /\ eSampleRetries = IF eSrt = 0 THEN 0 ELSE eSrt - 1
    /\ AnnotatedWithAttempt

\* A Candidate accepted on attempt 1, after one failed attempt
C22_Witness ==
    /\ ePhase = "accepted"
    /\ eSrt = 2
    /\ AcceptedNow
    /\ eLast.retry_count = 1
    /\ eSampleRetries = 1

(***************************************************************************)
(* Job manager: cleanup timers, stop during launch, eviction.              *)
(***************************************************************************)
\* C23: in every reachable state the job has at most one pending (started,
\* not cancelled, not fired) cleanup timer, and it is the one recorded in
\* the timer table, for every ordering of the reader's completion step and
\* stop.
C23_OnePendingTimerRecorded ==
    \A t \in TimerIds : \A u \in TimerIds :
        /\ jTimers[t] = "pending" => jTable = t
        /\ (jTimers[t] = "pending" /\ jTimers[u] = "pending") => t = u

\* stop_task has returned True: only that return path schedules a timer
\* of the stop
StopReturnedTrue == \E t \in 1..MaxStops : jTimers[t] # "none"

\* C27: once stop has returned true the job's subprocess is not running,
\* and so is not started later either, for every interleaving of stop with
\* the launcher thread, including a stop (and a following delete) that
\* comes before the launcher thread has stored the process handle.
C27_StoppedJobHasNoProcess == StopReturnedTrue => jProc # "running"

\* C30: a step that removes the job from the registry, by delete or by a
\* cleanup timer, is taken only while the job's finished flag is True,
\* whatever start, stop, delete, process exit and timer firing came before.
C30_EvictedOnlyWhenFinished == [][(jReg /\ ~jReg') => jFinished]_vars

(***************************************************************************)
(* Admission: release on every exit, one invocation per request.           *)
(***************************************************************************)
\* C25: a request never decrements more often than it acquired (never
\* without an acquire, as after a timeout or a store failure before the
\* acquire), and once it has returned each of its successful acquires has
\* been followed by exactly one decrement, however the backend invocation
\* ended.
C25_OneDecrementPerAcquire ==
    \A r \in Reqs :
        /\ decrs[r] <= incrs[r]
        /\ incrs[r] <= 1
        /\ pc[r] = "done" => decrs[r] = incrs[r]

\* C26: one request runs the backend invocation at most once, and a result
\* the backend has returned is the one the request answers with: a store
\* connection failure while the slot is released neither starts a second
\* invocation nor replaces the result.
C26_AtMostOneInvocation ==
    [][\A r \in Reqs :
          /\ invoked'[r] <= 1
          /\ outcome[r] = "returned" =>
                /\ outcome'[r] = "returned"
                /\ pc'[r] = "done" => result'[r] = "success"]_vars

\* Requests that hold a slot and will release it
LiveHolders == {r \in Reqs : pc[r] # "crashed" /\ incrs[r] > decrs[r]}

\* The counter still counts the slot of a holder that crashed
Leaked ==
    /\ \E h \in Reqs : pc[h] = "crashed"
    /\ RedisGet(store) > Cardinality(LiveHolders)

\* C24: the slot of a holder that crashed without releasing is eventually
\* freed by the expiry of the counter, also while other requests keep
\* acquiring and releasing slots of the same model, so that the model's
\* capacity is available again to the requests that wait for it.
C24_LeakedSlotEventuallyFreed == Leaked ~> ~Leaked

(***************************************************************************)
(* Pipeline orchestrator: failing workers.                                 *)
(***************************************************************************)
\* The workers of the running round that failed
FailedWorkers == {i \in Services : gTasks[i] \in {"fail", "exc"}}

\* C28: a round ends only when each of its workers has ended, failed or
\* not; it then counts one error per failed worker and adds nothing for
\* them to the generated count; run returns Success after every configured
\* round, with total_generated the sum over the successful workers; only
\* an empty sample set gives Failed, with no round run and 0 generated.
C28_FailedWorkerDoesNotAbort ==
    [][/\ (gPc = "gather" /\ gPc' # "gather") =>
             /\ \A i \in Services : gTasks[i] # "active"
             /\ gPc' = "loop"
             /\ gRound' = gRound + 1
             /\ gTotal' = gOkSum
             /\ \A i \in FailedWorkers : gOut[i] = 0
             /\ gPubOk' => gProgress'.round_errors = Cardinality(FailedWorkers)
       /\ (gPc # "done" /\ gPc' = "done") =>
             IF gSamples = 0
             THEN /\ gResult'.status = "Failed"
                  /\ gResult'.total_generated = 0
                  /\ gRound = 0 /\ gOkSum = 0
             ELSE /\ gResult'.status = "Success"
                  /\ gRound = gRounds
                  /\ gResult'.total_generated = gOkSum]_vars

\* A job of two rounds whose first endpoint failed in both and whose second
\* produced data has returned Success
C28_Witness ==
    /\ gPc = "done"
    /\ gResult.status = "Success"
    /\ gRounds = 2
    /\ gServices = 2
    /\ gTasks[1] \in {"fail", "exc"}
    /\ gTasks[2] = "ok"
    /\ gResult.total_generated = 1
    /\ gProgress.status = "completed"

(***************************************************************************)
(* Log streams: replay and live queue.                                     *)
(***************************************************************************)
\* C29: a stream emits each produced line at most once: a line replayed
\* from the history snapshot does not come again from the live queue,
\* whenever the subscriber connected.
C29_EachLineAtMostOnce ==
    \A s \in Subs : \A i \in 1..Len(sGot[s]) : \A j \in 1..Len(sGot[s]) :
        sGot[s][i] = sGot[s][j] => i = j

====
